---- MODULE Spec2Model ----
(***************************************************************************)
(* A model of search-github-users.py: the UserSearcher constructor (the    *)
(* query builder) and UserSearcher.search (the paginated search), with the *)
(* GitHub search endpoint as the environment.                              *)
(*                                                                         *)
(* A Python value that may be None is modelled as a set: {} is None and    *)
(* {v} is the value v.  A GitHub user is identified by its rank r in the   *)
(* backend's best-match order (r = 1 is the best match).                   *)
(***************************************************************************)
EXTENDS Integers, Sequences, FiniteSets, TLC

VARIABLES
    min_followers,   \* constructor argument: {} (None) or {n}
    min_repos,       \* constructor argument: {} (None) or {n}
    language,        \* constructor argument: {} (None) or {s}
    ctor,            \* "new" | "constructed" | "ValueError"
    _search_query,   \* self._search_query
    total,           \* backend: number of users matching the query
    backendShift,    \* backend: most ranks the ranking moves between fetches
    num_results,     \* argument of search()
    num_pages,       \* local of search()
    i,               \* loop variable of search(): pages appended so far
    search_results,  \* local of search(): the accumulating DataFrame
    requests,        \* history: the payloads sent, in order
    responses,       \* history: the 'items' arrays received, in order
    failedAt,        \* history: page index whose request failed, 0 if none
    exception,       \* "none" | "TransportError" | "KeyError"
    returned,        \* {} until search returns, then {the DataFrame}
    pc               \* "idle" | "loop" | "done" | "raised"

vars == <<min_followers, min_repos, language, ctor, _search_query, total,
          backendShift, num_results, num_pages, i, search_results, requests,
          responses, failedAt, exception, returned, pc>>

queryVars == <<min_followers, min_repos, language, ctor, _search_query>>
backendVars == <<total, backendShift>>

----------------------------------------------------------------------------
(* Bounds of the model *)

MaxNumResults == 250   \* search(n) is called with n in 1..MaxNumResults
MaxTotal == 300        \* the backend holds at most MaxTotal matching users
TotalStep == 50        \* totals are taken around the multiples of TotalStep
MaxShift == 1          \* an unstable backend moves its ranking by <= MaxShift
MaxCount == 3          \* min_followers, min_repos range over 0..MaxCount

Languages == {"", "python", "go"}

TotalChoices == {t \in 0..MaxTotal : t % TotalStep \in {0, 1, TotalStep - 1}}

----------------------------------------------------------------------------
(* Python helpers *)

None == {}

Val(v) == CHOOSE x \in v : TRUE

Min(a, b) == IF a <= b THEN a ELSE b

Max(a, b) == IF a >= b THEN a ELSE b

\* truth value of an int-or-None: None and 0 are falsy
TruthyInt(v) == v # None /\ Val(v) # 0

\* truth value of a str-or-None: None and '' are falsy
TruthyStr(v) == v # None /\ Val(v) # ""

\* x or y, for ints
Or(x, y) == IF x # 0 THEN x ELSE y

\* sep.join(parts)
RECURSIVE Join(_, _)
Join(parts, sep) ==
    IF Len(parts) = 0 THEN ""
    ELSE IF Len(parts) = 1 THEN parts[1]
    ELSE parts[1] \o sep \o Join(Tail(parts), sep)

----------------------------------------------------------------------------
(* UserSearcher.__init__ : the query builder *)

\* a variant that tests the arguments' truth values: not v
MissingArgsFalsy(f, r, l) == ~TruthyInt(f) /\ ~TruthyInt(r) /\ ~TruthyStr(l)

\* all(v is None for v in {min_followers, min_repos, language}): the set
\* literal merges equal arguments, which leaves `all` over them unchanged
MissingArgs(f, r, l) == \A k \in 1..3 : <<f, r, l>>[k] = None

\* the list `query` after the three `if` statements, joined with '+'
BuildQuery(f, r, l) ==
    LET q1 == IF TruthyInt(f)
              THEN <<"followers:>=" \o ToString(Val(f))>> ELSE <<>>
        q2 == IF TruthyInt(r)
              THEN Append(q1, "repos:>=" \o ToString(Val(r))) ELSE q1
        q3 == IF TruthyStr(l)
              THEN Append(q2, "language:" \o Val(l)) ELSE q2
    IN  Join(q3, "+")

\* UserSearcher(min_followers, min_repos, language)
Construct ==
    /\ ctor = "new"
    /\ IF MissingArgs(min_followers, min_repos, language)
       THEN /\ ctor' = "ValueError"
            /\ UNCHANGED _search_query
       ELSE /\ ctor' = "constructed"
            /\ _search_query' = BuildQuery(min_followers, min_repos, language)
    /\ UNCHANGED <<min_followers, min_repos, language, backendVars,
                   num_results, num_pages, i, search_results, requests,
                   responses, failedAt, exception, returned, pc>>

----------------------------------------------------------------------------
(* The GitHub search endpoint *)

\* one element of the response's 'items' array: the user of rank r
RawRecord(r) == [login |-> r, html_url |-> r, id |-> r]

\* the 'items' array answered to a payload, the ranking having moved by s
\* since the page before: page p of size per_page starts s ranks early
BackendItems(payload, s) ==
    LET first == Max(1, (payload.page - 1) * payload.per_page + 1 - s)
        last  == Min(first + payload.per_page - 1, total)
    IN  IF last < first THEN <<>>
        ELSE [k \in 1..(last - first + 1) |-> RawRecord(first + k - 1)]

----------------------------------------------------------------------------
(* UserSearcher.search *)

max_results == 100

\* a variant that always adds the extra page
get_pages_always_plus_one(n, m) == (n \div m) + 1

\* (num_results // max_results) + (num_results % max_results > 0)
_get_pages(n, m) == (n \div m) + (IF n % m > 0 THEN 1 ELSE 0)

\* a variant without the `or max_results`
final_res_remainder(n, m) == n % m

\* num_results % max_results or max_results
final_res(n, m) == Or(n % m, m)

\* with DataFrameFromDict(items) as df: the frame keeps only the two new
\* columns username (from login) and github_url (from html_url)
Project(items) ==
    [k \in 1..Len(items) |->
        [username |-> items[k].login, github_url |-> items[k].html_url]]

\* df.iloc[0:stop, :]
Iloc(df, stop) == SubSeq(df, 1, Min(stop, Len(df)))

\* a variant that compares the loop variable itself: i == num_pages
IsLastPageOffByOne(k, pages) == k = pages

\* the test that selects the page to truncate: i + 1 == num_pages
IsLastPage(k, pages) == k + 1 = pages

\* a variant with the frames in the other order: pd.concat([df, search_results])
ConcatPrepend(acc, df) == df \o acc

\* a variant that drops the rows already gathered: drop_duplicates()
ConcatDropDuplicates(acc, df) ==
    acc \o SelectSeq(df, LAMBDA row : \A k \in 1..Len(acc) : acc[k] # row)

\* pd.concat([search_results, df], ignore_index=True)
Concat(acc, df) == acc \o df

\* the payload of iteration k of the loop
Payload(k) ==
    [q |-> _search_query, page |-> k + 1,
     per_page |-> Min(num_results, max_results)]

\* search(n), up to the loop
Search(n) ==
    /\ ctor = "constructed"
    /\ pc = "idle"
    /\ num_results' = n
    /\ num_pages' = _get_pages(n, max_results)
    /\ search_results' = <<>>
    /\ i' = 0
    /\ pc' = "loop"
    /\ UNCHANGED <<queryVars, backendVars, requests, responses, failedAt,
                   exception, returned>>

\* one iteration of the loop whose request is answered.  An empty 'items'
\* array makes json_normalize return a frame with no columns, so that
\* df['login'] raises KeyError, which leaves search().
FetchPage ==
    /\ pc = "loop"
    /\ i < num_pages
    /\ \E s \in 0..backendShift :
        LET items == BackendItems(Payload(i), s)
            df    == Project(items)
            cut   == IF IsLastPage(i, num_pages)
                     THEN Iloc(df, final_res(num_results, max_results))
                     ELSE df
        IN  /\ requests' = Append(requests, Payload(i))
            /\ responses' = Append(responses, items)
            /\ IF Len(items) = 0
               THEN /\ exception' = "KeyError"
                    /\ pc' = "raised"
                    /\ UNCHANGED <<search_results, i>>
               ELSE /\ search_results' = Concat(search_results, cut)
                    /\ i' = i + 1
                    /\ UNCHANGED <<exception, pc>>
    /\ UNCHANGED <<queryVars, backendVars, num_results, num_pages, failedAt,
                   returned>>

\* a variant that swallows the failure and returns the pages gathered so far
TransportFailPartial ==
    /\ pc = "loop"
    /\ i < num_pages
    /\ requests' = Append(requests, Payload(i))
    /\ failedAt' = i + 1
    /\ returned' = {search_results}
    /\ pc' = "done"
    /\ UNCHANGED <<queryVars, backendVars, num_results, num_pages, i,
                   search_results, responses, exception>>

\* one iteration of the loop whose request fails: requests.get raises, or
\* the body is no JSON object with an 'items' key; the exception leaves
\* search()
TransportFail ==
    /\ pc = "loop"
    /\ i < num_pages
    /\ requests' = Append(requests, Payload(i))
    /\ failedAt' = i + 1
    /\ exception' = "TransportError"
    /\ pc' = "raised"
    /\ UNCHANGED <<queryVars, backendVars, num_results, num_pages, i,
                   search_results, responses, returned>>

\* the loop is over: return search_results
Return ==
    /\ pc = "loop"
    /\ i = num_pages
    /\ returned' = {search_results}
    /\ pc' = "done"
    /\ UNCHANGED <<queryVars, backendVars, num_results, num_pages, i,
                   search_results, requests, responses, failedAt, exception>>

----------------------------------------------------------------------------
(* Specifications *)

SearchIdle ==
    /\ num_results = 0
    /\ num_pages = 0
    /\ i = 0
    /\ search_results = <<>>
    /\ requests = <<>>
    /\ responses = <<>>
    /\ failedAt = 0
    /\ exception = "none"
    /\ returned = {}
    /\ pc = "idle"

\* the searcher of the script's entry point, in front of a backend
Constructed ==
    /\ min_followers = {1000}
    /\ min_repos = None
    /\ language = None
    /\ ctor = "constructed"
    /\ _search_query = BuildQuery({1000}, None, None)
    /\ total \in TotalChoices
    /\ SearchIdle

\* a backend whose order is stable
Init == Constructed /\ backendShift = 0

\* a backend whose ranking moves between page fetches
InitShift == Constructed /\ backendShift \in 1..MaxShift

\* any arguments of the constructor
InitQuery ==
    /\ min_followers \in {None} \cup {{n} : n \in 0..MaxCount}
    /\ min_repos \in {None} \cup {{n} : n \in 0..MaxCount}
    /\ language \in {None} \cup {{s} : s \in Languages}
    /\ ctor = "new"
    /\ _search_query = ""
    /\ total = 0
    /\ backendShift = 0
    /\ SearchIdle

Next ==
    \/ \E n \in 1..MaxNumResults : Search(n)
    \/ FetchPage
    \/ TransportFail
    \/ Return

NextQuery == Construct

Spec == Init /\ [][Next]_vars

SpecShift == InitShift /\ [][Next]_vars

SpecQuery == InitQuery /\ [][NextQuery]_vars

----------------------------------------------------------------------------
(* Vocabulary of the properties *)

\* search() is over, by a return or by an exception
Finished == pc \in {"done", "raised"}

\* the ResultSet handed to the caller (defined when pc = "done")
ResultSet == Val(returned)

\* the page size every request asks for
PageSize == Min(num_results, 100)

\* the number of items the last page is cut to
LastPageSize == IF num_results % 100 = 0 THEN 100 ELSE num_results % 100

\* what is kept of the p-th page received
KeptPage(p) ==
    IF p = num_pages
    THEN SubSeq(responses[p], 1, Min(LastPageSize, Len(responses[p])))
    ELSE responses[p]

\* the username and profile URL of a backend record
Item(raw) == [username |-> raw.login, github_url |-> raw.html_url]

Items(page) == [k \in 1..Len(page) |-> Item(page[k])]

\* the kept parts of pages 1..p, one after the other
RECURSIVE KeptUpTo(_)
KeptUpTo(p) == IF p = 0 THEN <<>> ELSE KeptUpTo(p - 1) \o Items(KeptPage(p))

RECURSIVE KeptCount(_)
KeptCount(p) == IF p = 0 THEN 0 ELSE KeptCount(p - 1) + Len(KeptPage(p))

\* how many times user u occurs in a sequence of items / of backend records
Occurrences(u, items) ==
    Cardinality({k \in 1..Len(items) : items[k].username = u})

RECURSIVE ReturnedTimes(_, _)
ReturnedTimes(u, p) ==
    IF p = 0 THEN 0
    ELSE ReturnedTimes(u, p - 1)
         + Cardinality({k \in 1..Len(KeptPage(p)) : KeptPage(p)[k].login = u})

----------------------------------------------------------------------------
(* Properties *)

\* C1: a search that meets no transport failure returns a ResultSet of
\* exactly min(numResults, T) items, T being the number of matching items
\* of a backend that serves them in a stable order.
C1_ReturnsMinOfRequestedAndAvailable ==
    (Finished /\ failedAt = 0) =>
        /\ pc = "done"
        /\ Len(ResultSet) = Min(num_results, total)

\* C2: when the transport fails on page k, search returns no ResultSet, the
\* pages gathered before are not handed out, and the requests made are
\* exactly those of pages 1..k, once each: no retry and no later page.
C2_FailureIsAllOrNothing ==
    failedAt # 0 =>
        /\ pc = "raised"
        /\ returned = {}
        /\ Len(requests) = failedAt
        /\ \A k \in 1..Len(requests) : requests[k].page = k

C2_Witness ==
    /\ failedAt = 2
    /\ num_pages = 3
    /\ Len(search_results) = 100
    /\ pc = "raised"
    /\ returned = {}

\* C3: construction fails if and only if the three criteria are all absent.
C3_RaisesIffAllAbsent ==
    ctor # "new" =>
        (ctor = "ValueError" <=>
            (min_followers = None /\ min_repos = None /\ language = None))

C3_Witness ==
    /\ ctor = "ValueError"
    /\ min_followers = None
    /\ min_repos = None
    /\ language = None

\* the clauses of the present criteria, in the order followers, repos,
\* language
PresentClauses ==
    (IF min_followers # None
     THEN <<"followers:>=" \o ToString(Val(min_followers))>> ELSE <<>>)
    \o (IF min_repos # None
        THEN <<"repos:>=" \o ToString(Val(min_repos))>> ELSE <<>>)
    \o (IF language # None THEN <<"language:" \o Val(language)>> ELSE <<>>)

\* C4: the query built holds exactly one clause per present criterion
\* (a present 0 or '' included) and none for an absent one, joined by '+'
\* in the order followers, repos, language.
C4_OneClausePerPresentField ==
    ctor = "constructed" => _search_query = Join(PresentClauses, "+")

\* with a stable backend the user of rank u is served on this page, at this
\* position
PageOf(u) == ((u - 1) \div PageSize) + 1
PosOf(u) == ((u - 1) % PageSize) + 1

CameBefore(x, y) ==
    \/ PageOf(x.username) < PageOf(y.username)
    \/ /\ PageOf(x.username) = PageOf(y.username)
       /\ PosOf(x.username) < PosOf(y.username)

\* C5: the ResultSet keeps the backend's order within and across pages:
\* every item is the one received at its page and position, and each item
\* came from an earlier page, or an earlier position of the same page, than
\* the item after it (hence than every later item, the order being
\* transitive).
C5_OrderPreserved ==
    pc = "done" =>
        \A a \in 1..Len(ResultSet) :
            /\ Item(responses[PageOf(ResultSet[a].username)]
                             [PosOf(ResultSet[a].username)]) = ResultSet[a]
            /\ a < Len(ResultSet) => CameBefore(ResultSet[a], ResultSet[a + 1])

C5_Witness ==
    /\ pc = "done"
    /\ num_pages = 3
    /\ Len(ResultSet) = 250

\* C6: a search that meets no transport failure issues exactly pageCount
\* requests, of pages 1, 2, ..., pageCount in this order, each of size
\* min(numResults, 100), however many items the pages return.
C6_ExactlyPageCountRequests ==
    (Finished /\ failedAt = 0) =>
        /\ Len(requests) = num_pages
        /\ \A k \in 1..Len(requests) :
            /\ requests[k].page = k
            /\ requests[k].per_page = PageSize

\* the users at the head of a page received after the first: where a
\* ranking that moved between two fetches repeats users of the page before
RepeatedCandidates ==
    UNION {{responses[p][j].login :
                j \in 1..Min(backendShift, Len(responses[p]))} :
           p \in 2..Len(responses)}

\* C7: nothing is deduplicated: the ResultSet holds as many items as the
\* pages kept, and a user the backend returned on two pages occurs in it
\* once for every time it was returned (in the kept part of a page).
C7_NoDeduplication ==
    pc = "done" =>
        /\ Len(ResultSet) = KeptCount(num_pages)
        /\ \A u \in RepeatedCandidates :
            Occurrences(u, ResultSet) = ReturnedTimes(u, num_pages)

C7_Witness ==
    /\ pc = "done"
    /\ \E u \in RepeatedCandidates : Occurrences(u, ResultSet) = 2

\* C8: the page count is the ceiling of numResults / 100, and 1, 10, 99,
\* 100, 101, 150, 200, 201 results take 1, 1, 1, 1, 2, 2, 2, 3 pages.
C8_PageCountIsCeiling ==
    pc # "idle" =>
        /\ num_pages * 100 >= num_results
        /\ (num_pages - 1) * 100 < num_results
        /\ num_results \in {1, 10, 99, 100} => num_pages = 1
        /\ num_results \in {101, 150, 200} => num_pages = 2
        /\ num_results = 201 => num_pages = 3

C8_Witness ==
    /\ pc = "loop"
    /\ num_results = 201
    /\ num_pages = 3

\* C9: every page before the last is appended whole and the last page is
\* cut to its first lastPageSize items, lastPageSize being numResults % 100,
\* or 100 when that is zero.
C9_OnlyLastPageTruncated ==
    search_results = KeptUpTo(i)

C9_Witness ==
    /\ pc = "done"
    /\ num_results = 200
    /\ Len(responses[2]) = 100
    /\ Len(ResultSet) = 200

\* C10: at the head of the loop, after k pages have been appended, exactly
\* k requests have been issued and the ResultSet holds at most k * 100
\* items; the ResultSet returned holds at most numResults items.
C10_AccumulationInvariant ==
    /\ pc \in {"loop", "done"} =>
        /\ Len(requests) = i
        /\ Len(search_results) <= i * 100
    /\ pc = "done" => Len(ResultSet) <= num_results

C10_Witness ==
    /\ pc = "loop"
    /\ i = 2
    /\ num_pages = 3
    /\ Len(search_results) = 200

====
